---- MODULE Spec2Model ----
(***************************************************************************)
(* Event-attendance server: the relational tables (events, attendees,      *)
(* checkin_logs), the REST handlers of server/routes.ts that read and      *)
(* write them, the dashboard-statistics cache and the WebSocket registry.  *)
(* A handler that awaits between a read and a write is a process whose     *)
(* steps interleave with the other handlers; a handler with one database   *)
(* statement is one action.                                                *)
(***************************************************************************)
EXTENDS Integers, Sequences, FiniteSets, TLC

\* ------------------------------------------------------------------ bounds
MaxEvents == 2        \* event ids ever generated
MaxAttendees == 2     \* attendee ids ever generated
MaxReqs == 2          \* POST /api/checkin requests in flight at a time
MaxJobs == 2          \* QR-generating requests (bulk import, QR fetch) in flight at a time
MaxTicks == 1         \* clock advances
MaxStatsReqs == 2     \* GET /api/dashboard/stats requests in flight at a time
MaxConns == 2         \* WebSocket connections ever accepted
MaxSent == 4          \* messages sent on one socket
MaxHookSockets == 3   \* WebSocket objects of a useWebSocket instance not yet closed
MaxHookTimers == 3    \* reconnect timers of a useWebSocket instance pending
MaxAttemptsSeen == 6  \* values of reconnectAttempts.current followed
MaxRegs == 2          \* POST /api/register requests
MaxStreams == 2       \* camera streams a QRScanner acquires
MaxFrames == 2        \* animation frames of a QRScanner pending
QrRange == 1          \* distinct values of the random QR number (10^10 in the code)

\* ------------------------------------------------------- program constants
maxAttempts == 10     \* ensureUniqueQRCode
CacheTTL == 5000      \* ms, GET /api/dashboard/stats

Users == {"u1", "u2"}
Names == {"n1", "n2"}
Statuses == {"pending", "checked_in", "checked_out"}
EventIds == 1..MaxEvents
AttendeeIds == 1..MaxAttendees
Reqs == 1..MaxReqs
Jobs == 1..MaxJobs
StatsReqs == 1..MaxStatsReqs
TickMs == CacheTTL                    \* the clock advances a time-to-live at a time
NoTime == -1                          \* a NULL timestamp column
NoQr == [kind |-> "none", n |-> 0]    \* a NULL qr_code column

VARIABLES
  events,          \* table events: the rows, by id
  nextEventId,     \* identity column of events
  attendees,       \* table attendees: the rows, by id
  nextAttendeeId,  \* identity column of attendees
  checkinLogs,     \* table checkin_logs: the rows, by id
  nextLogId,       \* identity column of checkin_logs
  eventCollaborators, \* the grants: who may do what on whose event
  now,             \* the server clock, Date.now()
  reqs,            \* the POST /api/checkin requests, each at its await
  jobs,            \* the QR-generating requests, each at its await
  cache,           \* cacheManager: key -> entry
  statsReqs,       \* the GET /api/dashboard/stats requests, each at its await
  clients,         \* WebSocketManager.clients: clientId -> WSClient
  sockets,         \* the accepted sockets: state and what was sent on each
  wss,             \* WebSocketManager.wss: the server accepts connections
  pingInterval,    \* WebSocketManager.pingInterval: the heartbeat timer is set
  wsCurrent,            \* useWebSocket: ws.current, a socket of the hook or 0 (null)
  hookSockets,          \* useWebSocket: the WebSocket objects created and not yet closed
  reconnectAttempts,    \* useWebSocket: reconnectAttempts.current
  reconnectTimeoutRef,  \* useWebSocket: reconnectTimeoutRef.current, a timer or 0 (null)
  hookTimers,           \* useWebSocket: the pending reconnect timers and their delays
  isConnected,          \* useWebSocket: the isConnected state
  hookMounted,          \* useWebSocket: the effect has run / its cleanup has run
  users,                \* table users: id -> row
  localAuth,            \* table local_auth: the set of its rows
  regs,                 \* POST /api/register: the requests and where they stand
  scanner               \* QRScanner: its props, state, refs, streams, timers and frames

dbvars == <<events, nextEventId, attendees, nextAttendeeId, checkinLogs, nextLogId,
           eventCollaborators>>
wsctl == <<wss, pingInterval>>
wsvars == <<clients, sockets, wsctl>>
hookvars == <<wsCurrent, hookSockets, reconnectAttempts, reconnectTimeoutRef,
              hookTimers, isConnected, hookMounted>>
\* The state outside the server routes and the WebSocket manager.
authvars == <<users, localAuth, regs>>
scanvars == <<scanner>>
restvars == <<hookvars, authvars, scanvars>>
vars == <<dbvars, now, reqs, jobs, cache, statsReqs, wsvars, restvars>>

\* Requests are numbered in the order of their arrival.
inTurn(procs, i) == IF i = 1 THEN TRUE ELSE procs[i - 1].pc # "idle"

\* --------------------------------------------------------------- the schema
qrCodeUnique_NoConstraint(tbl, id, code) == TRUE

\* attendees.qr_code is UNIQUE: NULLs aside, no other row holds the code.
qrCodeUnique(tbl, id, code) ==
  code = NoQr \/ \A a \in DOMAIN tbl : a = id \/ tbl[a].qrCode # code

\* ON DELETE CASCADE of attendees.event_id and checkin_logs.attendee_id.
cascadeAttendees(tbl, evs) == [a \in {x \in DOMAIN tbl : tbl[x].eventId \in DOMAIN evs} |-> tbl[a]]

cascadeLogs_None(logs, tbl) == logs

cascadeLogs(logs, tbl) == [l \in {x \in DOMAIN logs : logs[x].attendeeId \in DOMAIN tbl} |-> logs[l]]

\* A row with the columns of patch overwritten (UPDATE ... SET patch).
setColumns(row, patch) == [f \in DOMAIN row |-> IF f \in DOMAIN patch THEN patch[f] ELSE row[f]]

\* ------------------------------------------------------------------ storage
getEventById(id) == IF id \in DOMAIN events THEN {events[id]} ELSE {}

getAttendeeByQrCode(code) == {a \in DOMAIN attendees : attendees[a].qrCode = code}

\* INSERT INTO attendees; status defaults to pending, the times to NULL.
newAttendee(eventId, name, code) ==
  [eventId |-> eventId, name |-> name, qrCode |-> code, status |-> "pending",
   checkinTime |-> NoTime, checkoutTime |-> NoTime]

\* The insert is refused by the foreign key or by the unique qr_code.
canCreateAttendee(eventId, code) ==
  /\ eventId \in DOMAIN events
  /\ qrCodeUnique(attendees, 0, code)

\* UPDATE attendees SET patch WHERE id: the rows it may legally produce.
canUpdateAttendee(id, patch) ==
  /\ DOMAIN patch # {}
  /\ "eventId" \in DOMAIN patch => patch.eventId \in DOMAIN events
  /\ "qrCode" \in DOMAIN patch => qrCodeUnique(attendees, id, patch.qrCode)

updateAttendee(id, patch) ==
  IF id \in DOMAIN attendees
    THEN [attendees EXCEPT ![id] = setColumns(attendees[id], patch)]
    ELSE attendees

deleteAttendees(ids) == [a \in DOMAIN attendees \ ids |-> attendees[a]]

\* ------------------------------------------------------------ event routes
\* POST /api/events: the session's user overrides any userId of the body.
CreateEvent(u, name) ==
  /\ nextEventId <= MaxEvents
  /\ events' = [e \in DOMAIN events \cup {nextEventId} |->
                  IF e = nextEventId THEN [userId |-> u, name |-> name] ELSE events[e]]
  /\ nextEventId' = nextEventId + 1
  /\ UNCHANGED <<restvars, eventCollaborators, attendees, nextAttendeeId, checkinLogs, nextLogId,
                 now, reqs, jobs, cache, statsReqs, wsvars>>

\* insertEventSchema.partial(): the keys of the body that reach the UPDATE.
eventPatch(body) == [f \in DOMAIN body \cap {"userId", "name"} |-> body[f]]

\* storage.updateEvent: UPDATE events SET patch WHERE id = id.
updateEvent(id, patch) == [events EXCEPT ![id] = setColumns(events[id], patch)]

\* PUT /api/events/:id. An empty SET throws and is answered 400, a missing row 404.
UpdateEvent(u, id, body) ==
  /\ id \in DOMAIN events
  /\ DOMAIN eventPatch(body) # {}
  /\ events' = updateEvent(id, eventPatch(body))
  /\ UNCHANGED <<restvars, eventCollaborators, nextEventId, attendees, nextAttendeeId, checkinLogs, nextLogId,
                 now, reqs, jobs, cache, statsReqs, wsvars>>

\* storage.deleteEvent: DELETE FROM events WHERE id = id AND user_id = userId.
deleteEvent(id, userId) ==
  [e \in {x \in DOMAIN events : ~(x = id /\ events[x].userId = userId)} |-> events[e]]

\* DELETE /api/events/:id, with the cascade to attendees and checkin_logs.
DeleteEvent(u, id) ==
  /\ events' = deleteEvent(id, u)
  /\ events' # events
  /\ attendees' = cascadeAttendees(attendees, events')
  /\ checkinLogs' = cascadeLogs(checkinLogs, attendees')
  /\ UNCHANGED <<restvars, eventCollaborators, nextEventId, nextAttendeeId, nextLogId,
                 now, reqs, jobs, cache, statsReqs, wsvars>>

\* --------------------------------------------------------- attendee routes
insertAttendeeSchema_Passthrough(data) == data

\* insertAttendeeSchema omits qrCode, qrPath, status, checkinTime and
\* checkoutTime: parse() drops those keys from what it is given.
insertAttendeeSchema(data) == [f \in DOMAIN data \cap {"eventId", "name"} |-> data[f]]

\* POST /api/events/:eventId/attendees. The generated qrCode goes through
\* insertAttendeeSchema.parse and so does not reach the INSERT.
CreateAttendee(u, eventId, name) ==
  /\ nextAttendeeId <= MaxAttendees
  /\ LET data == insertAttendeeSchema([eventId |-> eventId, name |-> name,
                                       qrCode |-> [kind |-> "rand", n |-> 0]])
         code == IF "qrCode" \in DOMAIN data THEN data.qrCode ELSE NoQr
     IN /\ canCreateAttendee(data.eventId, code)
        /\ attendees' = [a \in DOMAIN attendees \cup {nextAttendeeId} |->
                           IF a = nextAttendeeId
                             THEN newAttendee(data.eventId, data.name, code)
                             ELSE attendees[a]]
  /\ nextAttendeeId' = nextAttendeeId + 1
  /\ UNCHANGED <<restvars, eventCollaborators, events, nextEventId, checkinLogs, nextLogId,
                 now, reqs, jobs, cache, statsReqs, wsvars>>

\* PUT /api/attendees/:id: the body goes through insertAttendeeSchema.partial().
UpdateAttendee(u, id, body) ==
  /\ id \in DOMAIN attendees
  /\ canUpdateAttendee(id, insertAttendeeSchema(body))
  /\ attendees' = updateAttendee(id, insertAttendeeSchema(body))
  /\ UNCHANGED <<restvars, eventCollaborators, events, nextEventId, nextAttendeeId, checkinLogs, nextLogId,
                 now, reqs, jobs, cache, statsReqs, wsvars>>

\* DELETE /api/attendees/:id, with the cascade to checkin_logs.
DeleteAttendee(u, id) ==
  /\ id \in DOMAIN attendees
  /\ attendees' = deleteAttendees({id})
  /\ checkinLogs' = cascadeLogs(checkinLogs, attendees')
  /\ UNCHANGED <<restvars, eventCollaborators, events, nextEventId, nextAttendeeId, nextLogId,
                 now, reqs, jobs, cache, statsReqs, wsvars>>

\* ------------------------------------------------------------ collaborators
\* The permissions the collaborators dialog offers.
PERMISSIONS == {"view", "checkin", "manage_attendees", "edit_event"}

\* POST /api/events/:eventId/collaborators: the owner grants another user
\* permissions on the event.
AddCollaborator(u, eventId, userId, permissions) ==
  /\ eventId \in DOMAIN events /\ events[eventId].userId = u
  /\ userId # u
  /\ \A g \in eventCollaborators : ~(g.eventId = eventId /\ g.userId = userId)
  /\ eventCollaborators' = eventCollaborators \cup
       {[eventId |-> eventId, userId |-> userId, permissions |-> permissions]}
  /\ UNCHANGED <<restvars, events, nextEventId, attendees, nextAttendeeId, checkinLogs, nextLogId,
                 now, reqs, jobs, cache, statsReqs, wsvars>>

\* ------------------------------------------------------------ cacheManager
statsKey_Shared(userId) == <<"stats", "">>

\* The cache key `stats:${userId}` of GET /api/dashboard/stats.
statsKey(userId) == <<"stats", userId>>

cacheGet(key) ==
  IF key \in DOMAIN cache /\ now < cache[key].expiresAt THEN {cache[key].value} ELSE {}

cacheSet(key, value, ttl) ==
  [k \in DOMAIN cache \cup {key} |->
     IF k = key THEN [value |-> value, expiresAt |-> now + ttl] ELSE cache[k]]

cacheInvalidate(key) == [k \in DOMAIN cache \ {key} |-> cache[k]]

\* -------------------------------------------------- WebSocketManager: send
OPEN == "OPEN"
CLOSED == "CLOSED"

\* A JSON message: its type and the userId and clientId its data carries or
\* was made for (0: no clientId).
message(type, userId, clientId) == [type |-> type, userId |-> userId, clientId |-> clientId]

\* ws.send: the message goes out on an OPEN socket and is dropped otherwise.
wsSend(socks, c, msg) ==
  IF socks[c].readyState = OPEN
    THEN [socks EXCEPT ![c].sent = Append(@, msg)]
    ELSE socks

broadcastTo_AnyUser(c, userId) == sockets[c].readyState = OPEN

\* A client of the user whose socket is OPEN.
broadcastTo(c, userId) == clients[c].userId = userId /\ sockets[c].readyState = OPEN

\* clients.forEach(client => if (client.userId === userId && OPEN) send(message))
broadcast(socks, userId, msg) ==
  [c \in DOMAIN socks |->
     IF c \in DOMAIN clients /\ broadcastTo(c, userId)
       THEN [socks[c] EXCEPT !.sent = Append(@, msg)]
       ELSE socks[c]]

broadcastCheckinUpdate(socks, userId) ==
  broadcast(socks, userId, message("checkin_update", userId, 0))

broadcastStatsUpdate(socks, userId) ==
  broadcast(socks, userId, message("stats_update", userId, 0))

broadcastAttendeeUpdate(socks, userId) ==
  broadcast(socks, userId, message("attendee_update", userId, 0))

\* ------------------------------------------- WebSocketManager: connections
userExists_Anyone(userId) == TRUE

\* storage.getUser(userId) finds the user.
userExists(userId) == userId \in Users

\* The userId a connection's URL may carry: none, a user, no user.
UrlUserIds == {""} \cup Users \cup {"ghost"}

newSocket(userId) ==
  [readyState |-> OPEN, userId |-> userId, pc |-> "lookup", closeCode |-> 0, sent |-> <<>>,
   pinged |-> FALSE]

\* ws.close(code) by the server.
wsClose(sock, code) == [sock EXCEPT !.readyState = CLOSED, !.closeCode = code, !.pc = "rejected"]

\* wss.on('connection') up to await storage.getUser: no userId closes at once.
WsConnection(c, userId) ==
  /\ wss
  /\ c \notin DOMAIN sockets
  /\ IF c = 1 THEN TRUE ELSE (c - 1) \in DOMAIN sockets
  /\ sockets' = [k \in DOMAIN sockets \cup {c} |->
                   IF k # c THEN sockets[k]
                   ELSE IF userId = "" THEN wsClose(newSocket(userId), 1008)
                   ELSE newSocket(userId)]
  /\ UNCHANGED <<restvars, wsctl, dbvars, now, reqs, jobs, cache, statsReqs, clients>>

\* After the user lookup: an unknown user closes the socket; a known one is
\* registered, sent 'connected' and given its pong, message and close handlers.
WsVerified(c) ==
  /\ c \in DOMAIN sockets /\ sockets[c].pc = "lookup"
  /\ IF ~userExists(sockets[c].userId)
       THEN /\ sockets' = [sockets EXCEPT ![c] = wsClose(@, 1008)]
            /\ UNCHANGED clients
       ELSE /\ clients' = [k \in DOMAIN clients \cup {c} |->
                             IF k = c THEN [userId |-> sockets[c].userId, isAlive |-> TRUE]
                             ELSE clients[k]]
            /\ sockets' = [wsSend(sockets, c, message("connected", sockets[c].userId, c))
                             EXCEPT ![c].pc = "attached"]
  /\ UNCHANGED <<restvars, wsctl, dbvars, now, reqs, jobs, cache, statsReqs>>

\* The peer closes the connection; the close handler, once attached, removes
\* the client from the registry.
WsPeerClose(c) ==
  /\ c \in DOMAIN sockets /\ sockets[c].readyState = OPEN
  /\ sockets' = [sockets EXCEPT ![c].readyState = CLOSED]
  /\ clients' = IF sockets[c].pc = "attached"
                  THEN [k \in DOMAIN clients \ {c} |-> clients[k]]
                  ELSE clients
  /\ UNCHANGED <<restvars, wsctl, dbvars, now, reqs, jobs, cache, statsReqs>>

\* ws.terminate(): the socket is destroyed (close code 1006).
wsTerminate(sock) == [sock EXCEPT !.readyState = CLOSED, !.closeCode = 1006]

\* ws.ping() has been called and no pong has come since.
wsPing(sock) == [sock EXCEPT !.pinged = TRUE]

WsHeartbeat_NoTerminate ==
  /\ pingInterval
  /\ DOMAIN clients # {}
  /\ clients' = [k \in DOMAIN clients |-> [clients[k] EXCEPT !.isAlive = FALSE]]
  /\ sockets' = [k \in DOMAIN sockets |->
                   IF k \in DOMAIN clients THEN wsPing(sockets[k]) ELSE sockets[k]]
  /\ UNCHANGED <<restvars, wsctl, dbvars, now, reqs, jobs, cache, statsReqs>>

\* startPingInterval: a client that is not alive is terminated and removed,
\* every other one is marked not alive and pinged.
WsHeartbeat ==
  /\ pingInterval
  /\ DOMAIN clients # {}
  /\ clients' = [k \in {x \in DOMAIN clients : clients[x].isAlive} |->
                   [clients[k] EXCEPT !.isAlive = FALSE]]
  /\ sockets' = [k \in DOMAIN sockets |->
                   IF k \notin DOMAIN clients THEN sockets[k]
                   ELSE IF ~clients[k].isAlive THEN wsTerminate(sockets[k])
                   ELSE wsPing(sockets[k])]
  /\ UNCHANGED <<restvars, wsctl, dbvars, now, reqs, jobs, cache, statsReqs>>

\* ws.on('pong'): the peer has answered the ping.
WsPong(c) ==
  /\ c \in DOMAIN clients /\ sockets[c].readyState = OPEN /\ sockets[c].pinged
  /\ clients' = [clients EXCEPT ![c].isAlive = TRUE]
  /\ sockets' = [sockets EXCEPT ![c].pinged = FALSE]
  /\ UNCHANGED <<restvars, wsctl, dbvars, now, reqs, jobs, cache, statsReqs>>

\* close(): the timer is cleared, every registered client's socket is closed,
\* the registry is cleared and the server stops accepting connections.
WsClose ==
  /\ wss \/ pingInterval \/ DOMAIN clients # {}
  /\ pingInterval' = FALSE
  /\ sockets' = [k \in DOMAIN sockets |->
                   IF k \in DOMAIN clients /\ sockets[k].readyState = OPEN
                     THEN [sockets[k] EXCEPT !.readyState = CLOSED, !.closeCode = 1005]
                     ELSE sockets[k]]
  /\ clients' = <<>>
  /\ wss' = FALSE
  /\ UNCHANGED <<restvars, dbvars, now, reqs, jobs, cache, statsReqs>>

\* handleMessage: a registered client's 'ping' message is answered 'pong'.
WsPingMessage(c) ==
  /\ c \in DOMAIN clients /\ sockets[c].readyState = OPEN
  /\ Len(sockets[c].sent) < MaxSent
  /\ sockets' = wsSend(sockets, c, message("pong", "", 0))
  /\ UNCHANGED <<restvars, wsctl, dbvars, now, reqs, jobs, cache, statsReqs, clients>>

\* ------------------------------------------------ GET /api/dashboard/stats
IdleStats == [pc |-> "idle", userId |-> "", stats |-> <<>>, source |-> ""]

\* The calendar day of a timestamp.
Day(t) == t \div 86400000

\* storage.getDashboardStats: the counts over the user's events, their
\* attendees and today's check_in log rows (userId: whose counts they are).
getDashboardStats(userId) ==
  LET evs == {e \in DOMAIN events : events[e].userId = userId}
      atts == {a \in DOMAIN attendees : attendees[a].eventId \in evs}
      logs == {l \in DOMAIN checkinLogs :
                 /\ checkinLogs[l].attendeeId \in atts
                 /\ checkinLogs[l].action = "check_in"
                 /\ Day(checkinLogs[l].timestamp) = Day(now)}
  IN [userId |-> userId, totalEvents |-> Cardinality(evs),
      totalStudents |-> Cardinality(atts), todayCheckins |-> Cardinality(logs)]

\* The handler up to its await: a cached entry is the response.
StatsGet(s, u) ==
  /\ statsReqs[s].pc \in {"idle", "done"}
  /\ inTurn(statsReqs, s)
  /\ statsReqs' =
       [statsReqs EXCEPT ![s] =
          IF cacheGet(statsKey(u)) # {}
            THEN [pc |-> "done", userId |-> u, stats |-> CHOOSE v \in cacheGet(statsKey(u)) : TRUE,
                  source |-> "cache"]
            ELSE [IdleStats EXCEPT !.pc = "query", !.userId = u]]
  /\ UNCHANGED <<restvars, dbvars, now, reqs, jobs, cache, wsvars>>

\* The database answers storage.getDashboardStats(userId).
StatsQuery(s) ==
  /\ statsReqs[s].pc = "query"
  /\ statsReqs' = [statsReqs EXCEPT ![s].pc = "store",
                                    ![s].stats = getDashboardStats(statsReqs[s].userId)]
  /\ UNCHANGED <<restvars, dbvars, now, reqs, jobs, cache, wsvars>>

\* cacheManager.set(cacheKey, stats, 5000); res.json(stats).
StatsStore(s) ==
  /\ statsReqs[s].pc = "store"
  /\ cache' = cacheSet(statsKey(statsReqs[s].userId), statsReqs[s].stats, CacheTTL)
  /\ statsReqs' = [statsReqs EXCEPT ![s].pc = "done", ![s].source = "db"]
  /\ UNCHANGED <<restvars, dbvars, now, reqs, jobs, wsvars>>

\* ----------------------------------------------------- DELETE /api/attendees/bulk
\* The ids of the request that name an attendee of an event the user owns.
validIds(u, ids) ==
  {a \in ids \cap DOMAIN attendees :
     attendees[a].eventId \in DOMAIN events /\ events[attendees[a].eventId].userId = u}

BulkDelete(u, ids) ==
  /\ validIds(u, ids) # {}
  /\ attendees' = deleteAttendees(validIds(u, ids))
  /\ checkinLogs' = cascadeLogs(checkinLogs, attendees')
  /\ cache' = cacheInvalidate(statsKey(u))
  /\ UNCHANGED <<restvars, eventCollaborators, events, nextEventId, nextAttendeeId, nextLogId,
                 now, reqs, jobs, statsReqs, wsvars>>

\* --------------------------------------------------------- POST /api/checkin
IdleReq ==
  [pc |-> "idle", userId |-> "", qrCode |-> NoQr, attendeeId |-> 0, eventId |-> 0,
   seen |-> "", action |-> "", time |-> NoTime, status |-> 0]

\* storage.getAttendeeWithEvent: the attendees holding the code, joined to their event.
getAttendeeWithEvent(code) ==
  {a \in getAttendeeByQrCode(code) : attendees[a].eventId \in DOMAIN events}

ownsEvent_NoCheck(event, userId) == TRUE

\* CRITICAL SECURITY CHECK: event.userId !== userId is answered 403.
ownsEvent(event, userId) == event.userId = userId

checkinAction_NoFinalState(status) == IF status = "pending" THEN "check_in" ELSE "check_out"

\* The branch on attendee.status: the action, or none for an attendee checked out.
checkinAction(status) ==
  IF status = "pending" THEN "check_in"
  ELSE IF status = "checked_in" THEN "check_out"
  ELSE "none"

newStatus(action) == IF action = "check_in" THEN "checked_in" ELSE "checked_out"

\* The columns the handler writes: the status and the time of the action.
checkinPatch(action, time) ==
  IF action = "check_in"
    THEN [status |-> newStatus(action), checkinTime |-> time]
    ELSE [status |-> newStatus(action), checkoutTime |-> time]

\* A request that has been answered and has nothing left to run: its response.
finished(req) ==
  [IdleReq EXCEPT !.pc = "done", !.status = req.status, !.action = req.action,
                  !.userId = req.userId, !.seen = req.seen]

rejected(r, u, seen, status) ==
  [reqs EXCEPT ![r] = finished([IdleReq EXCEPT !.userId = u, !.seen = seen, !.status = status])]

\* The request up to its first await that writes: body check, lookup, ownership
\* check and the branch on the status read.
CheckinLookup(r, u, code) ==
  /\ reqs[r].pc \in {"idle", "done"}
  /\ inTurn(reqs, r)
  /\ IF code = NoQr THEN reqs' = rejected(r, u, "", 400)
     ELSE IF getAttendeeWithEvent(code) = {} THEN reqs' = rejected(r, u, "", 404)
     ELSE \E a \in getAttendeeWithEvent(code) :
            LET attendee == attendees[a]
                event == events[attendee.eventId]
                found == [IdleReq EXCEPT !.userId = u, !.qrCode = code, !.attendeeId = a,
                                         !.eventId = attendee.eventId,
                                         !.seen = attendee.status]
            IN IF ~ownsEvent(event, u)
                 THEN reqs' = rejected(r, u, attendee.status, 403)
               ELSE IF checkinAction(attendee.status) = "none"
                 THEN reqs' = rejected(r, u, attendee.status, 400)
               ELSE reqs' = [reqs EXCEPT ![r] =
                               [found EXCEPT !.pc = "update", !.time = now,
                                             !.action = checkinAction(attendee.status)]]
  /\ UNCHANGED <<restvars, dbvars, now, jobs, cache, statsReqs, wsvars>>

\* await storage.updateAttendee(...), then res.json(responseData).
CheckinUpdate(r) ==
  /\ reqs[r].pc = "update"
  /\ attendees' = updateAttendee(reqs[r].attendeeId, checkinPatch(reqs[r].action, reqs[r].time))
  /\ reqs' = [reqs EXCEPT ![r].pc = "log", ![r].status = 200]
  /\ UNCHANGED <<restvars, eventCollaborators, events, nextEventId, nextAttendeeId, checkinLogs, nextLogId,
                 now, jobs, cache, statsReqs, wsvars>>

createCheckinLog_Overwrite(attendeeId, action) ==
  [l \in {nextLogId} |-> [attendeeId |-> attendeeId, action |-> action, timestamp |-> now]]

\* storage.createCheckinLog; the row is refused when the attendee is gone.
createCheckinLog(attendeeId, action) ==
  [l \in DOMAIN checkinLogs \cup {nextLogId} |->
     IF l = nextLogId
       THEN [attendeeId |-> attendeeId, action |-> action, timestamp |-> now]
       ELSE checkinLogs[l]]

checkinBroadcasts_StatsFirst(socks, userId) ==
  broadcastAttendeeUpdate(broadcastCheckinUpdate(broadcastStatsUpdate(socks, userId), userId), userId)

\* The three broadcasts of the post-response block, in the order of the code.
checkinBroadcasts(socks, userId) ==
  broadcastAttendeeUpdate(broadcastStatsUpdate(broadcastCheckinUpdate(socks, userId), userId), userId)

\* The broadcast methods as called with a userId by the check-in route.
WsBroadcast(userId) ==
  /\ \A c \in DOMAIN sockets : Len(sockets[c].sent) + 3 <= MaxSent
  /\ sockets' = checkinBroadcasts(sockets, userId)
  /\ UNCHANGED <<restvars, wsctl, dbvars, now, reqs, jobs, cache, statsReqs, clients>>

\* setImmediate: the log row is written. The rejected insert is caught: no
\* invalidation, no broadcast. With the stats already read (statsFirst) the
\* invalidation and the broadcasts follow at once, otherwise after the stats.
CheckinLog(r, statsFirst) ==
  /\ reqs[r].pc = "log"
  /\ IF reqs[r].attendeeId \in DOMAIN attendees
       THEN /\ checkinLogs' = createCheckinLog(reqs[r].attendeeId, reqs[r].action)
            /\ nextLogId' = nextLogId + 1
            /\ IF statsFirst
                 THEN /\ cache' = cacheInvalidate(statsKey(reqs[r].userId))
                      /\ sockets' = checkinBroadcasts(sockets, reqs[r].userId)
                      /\ reqs' = [reqs EXCEPT ![r] = finished(reqs[r])]
                 ELSE /\ reqs' = [reqs EXCEPT ![r].pc = "broadcast"]
                      /\ UNCHANGED <<cache, sockets>>
       ELSE /\ reqs' = [reqs EXCEPT ![r] = finished(reqs[r])]
            /\ UNCHANGED <<checkinLogs, nextLogId, cache, sockets>>
  /\ UNCHANGED <<restvars, wsctl, eventCollaborators, events, nextEventId, attendees, nextAttendeeId, now, jobs, statsReqs, clients>>

\* The stats have been read after the log row: invalidate, then broadcast.
CheckinBroadcast(r) ==
  /\ reqs[r].pc = "broadcast"
  /\ cache' = cacheInvalidate(statsKey(reqs[r].userId))
  /\ sockets' = checkinBroadcasts(sockets, reqs[r].userId)
  /\ reqs' = [reqs EXCEPT ![r] = finished(reqs[r])]
  /\ UNCHANGED <<restvars, wsctl, dbvars, now, jobs, statsReqs, clients>>

\* setImmediate, catch: storage.createCheckinLog has rejected (the database
\* failed). The error is logged; nothing else of the block runs.
CheckinLogFails(r) ==
  /\ reqs[r].pc = "log"
  /\ reqs' = [reqs EXCEPT ![r] = finished(reqs[r])]
  /\ UNCHANGED <<restvars, dbvars, now, jobs, cache, statsReqs, wsvars>>

CheckinStatsFails_Broadcasts(r) ==
  /\ reqs[r].pc = "broadcast"
  /\ sockets' = checkinBroadcasts(sockets, reqs[r].userId)
  /\ reqs' = [reqs EXCEPT ![r] = finished(reqs[r])]
  /\ UNCHANGED <<restvars, wsctl, dbvars, now, jobs, cache, statsReqs, clients>>

\* setImmediate, catch: storage.getDashboardStats has rejected while the log
\* row was written. Promise.all rejects: no invalidation, no broadcast.
CheckinStatsFails(r) ==
  /\ reqs[r].pc = "broadcast"
  /\ reqs' = [reqs EXCEPT ![r] = finished(reqs[r])]
  /\ UNCHANGED <<restvars, dbvars, now, jobs, cache, statsReqs, wsvars>>

\* ------------------------------------------------------ QR code generation
IdleJob ==
  [pc |-> "idle", kind |-> "", eventId |-> 0, attendeeId |-> 0,
   name |-> "", attempts |-> 0, qrCode |-> NoQr, status |-> 0, failed |-> 0]

\* A request that has been answered: its response and the code it generated.
finishedJob(job, status, failed) ==
  [IdleJob EXCEPT !.pc = "done", !.status = status, !.failed = failed, !.qrCode = job.qrCode]

\* generateUniqueQRCode: CK_ and ten random digits.
generateUniqueQRCode(n) == [kind |-> "rand", n |-> n]

\* The fallback CK_${Date.now()} of ensureUniqueQRCode.
fallbackQRCode == [kind |-> "ts", n |-> now]

\* POST /api/events/:eventId/attendees/bulk up to the first row: the event
\* must exist (404) and be owned by the user (403).
ImportStart(j, u, eventId, name) ==
  /\ jobs[j].pc \in {"idle", "done"}
  /\ inTurn(jobs, j)
  /\ LET job == [IdleJob EXCEPT !.kind = "import", !.eventId = eventId, !.name = name]
     IN IF getEventById(eventId) = {}
          THEN jobs' = [jobs EXCEPT ![j] = finishedJob(job, 404, 0)]
        ELSE IF events[eventId].userId # u
          THEN jobs' = [jobs EXCEPT ![j] = finishedJob(job, 403, 0)]
        ELSE jobs' = [jobs EXCEPT ![j] = [job EXCEPT !.pc = "generate"]]
  /\ UNCHANGED <<restvars, dbvars, now, reqs, cache, statsReqs, wsvars>>

\* GET /api/attendees/:id/qr up to the regeneration: a missing attendee is
\* answered 404, an attendee holding a code is answered with it.
QrFetchStart(j, u, id) ==
  /\ jobs[j].pc \in {"idle", "done"}
  /\ inTurn(jobs, j)
  /\ LET job == [IdleJob EXCEPT !.kind = "regen", !.attendeeId = id]
     IN IF id \notin DOMAIN attendees
          THEN jobs' = [jobs EXCEPT ![j] = finishedJob(job, 404, 0)]
        ELSE IF attendees[id].qrCode # NoQr
          THEN jobs' = [jobs EXCEPT ![j] = finishedJob(job, 200, 0)]
        ELSE jobs' = [jobs EXCEPT ![j] = [job EXCEPT !.pc = "generate"]]
  /\ UNCHANGED <<restvars, dbvars, now, reqs, cache, statsReqs, wsvars>>

\* One turn of the do-while of ensureUniqueQRCode: a random code, the lookup,
\* and after maxAttempts codes in use the fallback.
EnsureUniqueQRCode(j, n) ==
  /\ jobs[j].pc = "generate"
  /\ IF getAttendeeByQrCode(generateUniqueQRCode(n)) = {}
       THEN jobs' = [jobs EXCEPT ![j].pc = "write", ![j].qrCode = generateUniqueQRCode(n)]
     ELSE IF jobs[j].attempts + 1 < maxAttempts
       THEN jobs' = [jobs EXCEPT ![j].attempts = @ + 1]
     ELSE jobs' = [jobs EXCEPT ![j].pc = "write", ![j].attempts = @ + 1,
                               ![j].qrCode = fallbackQRCode]
  /\ UNCHANGED <<restvars, dbvars, now, reqs, cache, statsReqs, wsvars>>

\* storage.createAttendee of a row of the import, given straight to the
\* INSERT with its qrCode; a refused row is counted in errors.
ImportInsert(j) ==
  /\ jobs[j].pc = "write" /\ jobs[j].kind = "import"
  /\ IF canCreateAttendee(jobs[j].eventId, jobs[j].qrCode)
       THEN /\ nextAttendeeId <= MaxAttendees
            /\ attendees' = [a \in DOMAIN attendees \cup {nextAttendeeId} |->
                               IF a = nextAttendeeId
                                 THEN newAttendee(jobs[j].eventId, jobs[j].name, jobs[j].qrCode)
                                 ELSE attendees[a]]
            /\ nextAttendeeId' = nextAttendeeId + 1
            /\ jobs' = [jobs EXCEPT ![j] = finishedJob(jobs[j], 200, 0)]
       ELSE /\ jobs' = [jobs EXCEPT ![j] = finishedJob(jobs[j], 200, 1)]
            /\ UNCHANGED <<attendees, nextAttendeeId>>
  /\ UNCHANGED <<restvars, eventCollaborators, events, nextEventId, checkinLogs, nextLogId,
                 now, reqs, cache, statsReqs, wsvars>>

\* storage.updateAttendee(attendeeId, {qrCode, qrPath}) of the QR fetch; a
\* code taken in the meantime makes the UPDATE throw, answered 500.
QrRegenUpdate(j) ==
  /\ jobs[j].pc = "write" /\ jobs[j].kind = "regen"
  /\ IF canUpdateAttendee(jobs[j].attendeeId, [qrCode |-> jobs[j].qrCode])
       THEN /\ attendees' = updateAttendee(jobs[j].attendeeId, [qrCode |-> jobs[j].qrCode])
            /\ jobs' = [jobs EXCEPT ![j] = finishedJob(jobs[j], 200, 0)]
       ELSE /\ jobs' = [jobs EXCEPT ![j] = finishedJob(jobs[j], 500, 1)]
            /\ UNCHANGED attendees
  /\ UNCHANGED <<restvars, eventCollaborators, events, nextEventId, nextAttendeeId, checkinLogs, nextLogId,
                 now, reqs, cache, statsReqs, wsvars>>

\* ------------------------------------------------------------------- clock
Tick ==
  /\ now + TickMs <= MaxTicks * TickMs
  /\ now' = now + TickMs
  /\ UNCHANGED <<restvars, dbvars, reqs, jobs, cache, statsReqs, wsvars>>

\* ------------------------------------------------------------ useWebSocket
maxReconnectAttempts == 5

CONNECTING == "CONNECTING"
CLOSING == "CLOSING"

Min(a, b) == IF a < b THEN a ELSE b

\* Math.min(1000 * Math.pow(2, reconnectAttempts.current), 30000)
reconnectDelay(n) == Min(1000 * 2 ^ n, 30000)

\* connect() returns at once: ws.current?.readyState === WebSocket.OPEN
\* (the user is loaded).
connectGuard == wsCurrent # 0 /\ hookSockets[wsCurrent].readyState = OPEN

\* The number given to a new socket or timer: the first one not in use.
freeId(used, max) == CHOOSE k \in 1..max : k \notin used /\ \A x \in 1..(k - 1) : x \in used

\* connect(): unless ws.current is open, a new WebSocket becomes ws.current.
connect(socks) ==
  IF connectGuard
    THEN /\ hookSockets' = socks
         /\ UNCHANGED wsCurrent
    ELSE LET new == freeId(DOMAIN socks, MaxHookSockets)
         IN /\ hookSockets' = [k \in DOMAIN socks \cup {new} |->
                                 IF k = new THEN [readyState |-> CONNECTING] ELSE socks[k]]
            /\ wsCurrent' = new

\* connect() can still be given a WebSocket within the bound.
canConnect == connectGuard \/ Cardinality(DOMAIN hookSockets) < MaxHookSockets

\* The effect: connect() once the user is loaded; the interval and the
\* visibilitychange listener are set up.
HookMount ==
  /\ hookMounted = "init"
  /\ canConnect
  /\ hookMounted' = "mounted"
  /\ connect(hookSockets)
  /\ UNCHANGED <<reconnectAttempts, reconnectTimeoutRef, hookTimers, isConnected>>
  /\ UNCHANGED <<dbvars, now, reqs, jobs, cache, statsReqs, wsvars, authvars, scanvars>>

\* handleVisibilityChange, the page being visible: the isConnected of the
\* closure is the one of the render that ran the effect, false.
HookVisible ==
  /\ hookMounted = "mounted"
  /\ canConnect
  /\ connect(hookSockets)
  /\ UNCHANGED <<reconnectAttempts, reconnectTimeoutRef, hookTimers, isConnected, hookMounted>>
  /\ UNCHANGED <<dbvars, now, reqs, jobs, cache, statsReqs, wsvars, authvars, scanvars>>

\* onopen of a socket that was connecting.
HookOpen(k) ==
  /\ k \in DOMAIN hookSockets /\ hookSockets[k].readyState = CONNECTING
  /\ hookSockets' = [hookSockets EXCEPT ![k].readyState = OPEN]
  /\ isConnected' = TRUE
  /\ reconnectAttempts' = 0
  /\ UNCHANGED <<wsCurrent, reconnectTimeoutRef, hookTimers, hookMounted>>
  /\ UNCHANGED <<dbvars, now, reqs, jobs, cache, statsReqs, wsvars, authvars, scanvars>>

\* onclose of a socket: the connection failed, was lost or was closed by
\* close(). ws.current is set to null and a reconnect is scheduled.
HookClosed(k) ==
  /\ k \in DOMAIN hookSockets
  /\ reconnectAttempts < maxReconnectAttempts => Cardinality(DOMAIN hookTimers) < MaxHookTimers
  /\ hookSockets' = [x \in DOMAIN hookSockets \ {k} |-> hookSockets[x]]
  /\ isConnected' = FALSE
  /\ wsCurrent' = 0
  /\ IF reconnectAttempts < maxReconnectAttempts
       THEN LET new == freeId(DOMAIN hookTimers, MaxHookTimers)
            IN /\ hookTimers' = [t \in DOMAIN hookTimers \cup {new} |->
                                   IF t = new THEN reconnectDelay(reconnectAttempts)
                                   ELSE hookTimers[t]]
               /\ reconnectTimeoutRef' = new
       ELSE UNCHANGED <<hookTimers, reconnectTimeoutRef>>
  /\ UNCHANGED <<reconnectAttempts, hookMounted>>
  /\ UNCHANGED <<dbvars, now, reqs, jobs, cache, statsReqs, wsvars, authvars, scanvars>>

\* The callback of a reconnect timer: reconnectAttempts.current++; connect().
\* The ref of a timer that has fired clears nothing: it is as good as null.
HookTimer(t) ==
  /\ t \in DOMAIN hookTimers
  /\ canConnect
  /\ reconnectAttempts < MaxAttemptsSeen
  /\ hookTimers' = [x \in DOMAIN hookTimers \ {t} |-> hookTimers[x]]
  /\ reconnectTimeoutRef' = IF reconnectTimeoutRef = t THEN 0 ELSE reconnectTimeoutRef
  /\ reconnectAttempts' = reconnectAttempts + 1
  /\ connect(hookSockets)
  /\ UNCHANGED <<isConnected, hookMounted>>
  /\ UNCHANGED <<dbvars, now, reqs, jobs, cache, statsReqs, wsvars, authvars, scanvars>>

\* The effect's cleanup: the listener and the interval are removed and
\* disconnect() clears the timer of the ref and closes ws.current.
HookUnmount ==
  /\ hookMounted = "mounted"
  /\ hookMounted' = "unmounted"
  /\ hookTimers' = [x \in DOMAIN hookTimers \ {reconnectTimeoutRef} |-> hookTimers[x]]
  /\ reconnectTimeoutRef' = 0
  /\ hookSockets' = [k \in DOMAIN hookSockets |->
                       IF k = wsCurrent THEN [readyState |-> CLOSING] ELSE hookSockets[k]]
  /\ wsCurrent' = 0
  /\ isConnected' = FALSE
  /\ UNCHANGED reconnectAttempts
  /\ UNCHANGED <<dbvars, now, reqs, jobs, cache, statsReqs, wsvars, authvars, scanvars>>

\* useWebSocket before its effect has run.
InitHook ==
  /\ wsCurrent = 0 /\ hookSockets = <<>>
  /\ reconnectAttempts = 0
  /\ reconnectTimeoutRef = 0 /\ hookTimers = <<>>
  /\ isConnected = FALSE
  /\ hookMounted = "init"

\* ------------------------------------------------------ POST /api/register
Regs == 1..MaxRegs
Usernames == {"", "ann", "bob"}
Passwords == {"", "pw"}
Emails == {"", "a@x", "b@x"}
RegisterBodies == [username : Usernames, password : Passwords, email : Emails]
IdleReg == [pc |-> "idle"]

\* storage.getLocalAuthByUsername: the rows of that username.
getLocalAuthByUsername(username) == {a \in localAuth : a.username = username}

\* A response ends the request.
regDone(r, status) == regs' = [regs EXCEPT ![r] = [@ EXCEPT !.pc = "done", !.status = status]]

\* The request arrives: 400 unless username, password and email are given.
RegisterStart(r, body) ==
  /\ regs[r].pc = "idle" /\ inTurn(regs, r)
  /\ regs' = [regs EXCEPT ![r] =
       IF body.username = "" \/ body.password = "" \/ body.email = ""
         THEN [pc |-> "done", body |-> body, status |-> 400]
         ELSE [pc |-> "check", body |-> body, status |-> 0]]
  /\ UNCHANGED <<users, localAuth>>
  /\ UNCHANGED <<dbvars, now, reqs, jobs, cache, statsReqs, wsvars, hookvars, scanvars>>

\* existingAuth: 400 if the username is taken.
RegisterCheck(r) ==
  /\ regs[r].pc = "check"
  /\ IF getLocalAuthByUsername(regs[r].body.username) # {}
       THEN regDone(r, 400)
       ELSE regs' = [regs EXCEPT ![r].pc = "user"]
  /\ UNCHANGED <<users, localAuth>>
  /\ UNCHANGED <<dbvars, now, reqs, jobs, cache, statsReqs, wsvars, hookvars, scanvars>>

\* storage.upsertUser with a fresh id (the request's number stands for the
\* UUID): the insert fails on users.email UNIQUE, and the catch answers 500.
RegisterUser(r) ==
  /\ regs[r].pc = "user"
  /\ IF \E u \in DOMAIN users : users[u].email = regs[r].body.email
       THEN /\ regDone(r, 500)
            /\ UNCHANGED users
       ELSE /\ users' = [u \in DOMAIN users \cup {r} |->
                           IF u = r THEN [email |-> regs[r].body.email] ELSE users[u]]
            /\ regs' = [regs EXCEPT ![r].pc = "hash"]
  /\ UNCHANGED localAuth
  /\ UNCHANGED <<dbvars, now, reqs, jobs, cache, statsReqs, wsvars, hookvars, scanvars>>

\* bcrypt.hash of the password.
RegisterHash(r) ==
  /\ regs[r].pc = "hash"
  /\ regs' = [regs EXCEPT ![r].pc = "auth"]
  /\ UNCHANGED <<users, localAuth>>
  /\ UNCHANGED <<dbvars, now, reqs, jobs, cache, statsReqs, wsvars, hookvars, scanvars>>

\* storage.createLocalAuth: the insert fails on local_auth.username UNIQUE
\* (user_id is fresh and refers to the row just inserted), and the catch
\* answers 500; otherwise the response is 200.
RegisterAuth(r) ==
  /\ regs[r].pc = "auth"
  /\ IF getLocalAuthByUsername(regs[r].body.username) # {}
       THEN /\ regDone(r, 500)
            /\ UNCHANGED localAuth
       ELSE /\ localAuth' = localAuth \cup {[userId |-> r, username |-> regs[r].body.username]}
            /\ regDone(r, 200)
  /\ UNCHANGED users
  /\ UNCHANGED <<dbvars, now, reqs, jobs, cache, statsReqs, wsvars, hookvars, scanvars>>

InitAuth ==
  /\ users = <<>>
  /\ localAuth = {}
  /\ regs = [r \in Regs |-> IdleReg]

\* ---------------------------------------------------------------- QRScanner
\* The events of the video element that startScanning listens to.
VideoEvents == {"loadedmetadata", "canplay", "play", "error"}

\* A state setter: nothing happens once the component is unmounted.
setState(s, field, value) == IF s.mounted THEN [s EXCEPT ![field] = value] ELSE s

\* The <video> and <canvas> elements are rendered for active && hasPermission.
videoPresent(s) == s.mounted /\ s.active /\ s.hasPermission

\* stopScanning: the frame of animationRef is cancelled, the tracks of
\* streamRef are stopped, both refs are reset (a stopped stream delivers no
\* more video events, whether or not srcObject could be cleared).
stopScanning(s) ==
  LET r == [s EXCEPT
              !.frames = [f \in DOMAIN s.frames \ {s.animationRef} |-> s.frames[f]],
              !.animationRef = 0,
              !.tracks = IF s.streamRef # 0 THEN [s.tracks EXCEPT ![s.streamRef] = "ended"]
                         ELSE s.tracks,
              !.streamRef = 0]
  IN setState(setState(r, "hasPermission", FALSE), "cameraReady", FALSE)

\* startScanning up to its await of getUserMedia; the call keeps the
\* cameraReady of the render it was made in.
startScanning(s) ==
  IF s.isLoading THEN s
  ELSE [s EXCEPT !.isLoading = TRUE, !.cameraReady = FALSE,
                 !.calls = Append(s.calls, [ready |-> s.cameraReady])]

\* The effect on [active, hasPermission, isLoading], after a commit that
\* changed one of them.
effect(old, new) ==
  IF ~new.mounted
       \/ <<old.active, old.hasPermission, old.isLoading>>
            = <<new.active, new.hasPermission, new.isLoading>>
    THEN new
    ELSE IF new.active /\ ~new.hasPermission /\ ~new.isLoading THEN startScanning(new)
    ELSE IF ~new.active /\ new.hasPermission THEN stopScanning(new)
    ELSE new

\* A frame is requested for detectFrame and animationRef holds it.
requestFrame(s, ready) ==
  LET f == freeId(DOMAIN s.frames, MaxFrames)
  IN [s EXCEPT !.frames = [x \in DOMAIN s.frames \cup {f} |->
                             IF x = f THEN [ready |-> ready] ELSE s.frames[x]],
               !.animationRef = f]

\* The calls and timers pending at a time: each stream sets at most three
\* timers, one for each event that reaches handleVideoReady.
PendingIds == 1..(3 * MaxStreams)

RemoveAt(seq, i) == [k \in 1..(Len(seq) - 1) |-> IF k < i THEN seq[k] ELSE seq[k + 1]]

\* The parent activates the scanner ("Bật camera", onActivate).
ScanActivate ==
  /\ scanner.mounted /\ ~scanner.active
  /\ scanner' = effect(scanner, [scanner EXCEPT !.active = TRUE, !.scans = 0])
  /\ UNCHANGED <<dbvars, now, reqs, jobs, cache, statsReqs, wsvars, hookvars, authvars>>

\* The parent deactivates the scanner (onDeactivate of the stop button).
ScanDeactivate ==
  /\ scanner.mounted /\ scanner.active
  /\ scanner' = effect(scanner, [scanner EXCEPT !.active = FALSE])
  /\ UNCHANGED <<dbvars, now, reqs, jobs, cache, statsReqs, wsvars, hookvars, authvars>>

\* getUserMedia resolves for a call of startScanning: the stream goes to
\* streamRef and, if the video element exists, the load timeout and the
\* video listeners are set up. Whether setHasPermission(true) is rendered
\* before videoRef.current is read depends on React's root (sync).
ScanGranted(i, sync) ==
  /\ i \in DOMAIN scanner.calls
  /\ scanner.nextStream <= MaxStreams
  /\ LET n == scanner.nextStream
         s1 == [scanner EXCEPT !.calls = RemoveAt(scanner.calls, i),
                               !.nextStream = n + 1,
                               !.tracks = [x \in DOMAIN scanner.tracks \cup {n} |->
                                             IF x = n THEN "live" ELSE scanner.tracks[x]],
                               !.streamRef = n]
         s2 == setState(s1, "hasPermission", TRUE)
         s3 == IF scanner.mounted /\ scanner.active /\ (sync \/ scanner.hasPermission)
                 THEN [s2 EXCEPT !.handlers =
                         [x \in DOMAIN s2.handlers \cup {n} |->
                            IF x = n THEN [ready |-> scanner.calls[i].ready,
                                           loadTimeout |-> TRUE, events |-> VideoEvents]
                            ELSE s2.handlers[x]]]
                 ELSE s2
     IN scanner' = effect(scanner, s3)
  /\ UNCHANGED <<dbvars, now, reqs, jobs, cache, statsReqs, wsvars, hookvars, authvars>>

\* getUserMedia rejects, also for the fallback constraints: the catch.
ScanDenied(i) ==
  /\ i \in DOMAIN scanner.calls
  /\ LET s1 == [scanner EXCEPT !.calls = RemoveAt(scanner.calls, i)]
         s2 == setState(setState(s1, "isLoading", FALSE), "hasPermission", FALSE)
     IN scanner' = effect(scanner, s2)
  /\ UNCHANGED <<dbvars, now, reqs, jobs, cache, statsReqs, wsvars, hookvars, authvars>>

\* An event of the video element playing stream n: handleVideoReady for
\* loadedmetadata, and for canplay and play unless the call's cameraReady is
\* set; handleVideoError for error.
ScanVideoEvent(n, e) ==
  /\ n \in DOMAIN scanner.handlers
  /\ scanner.tracks[n] = "live"
  /\ e \in scanner.handlers[n].events
  /\ LET h == scanner.handlers[n]
         s1 == [scanner EXCEPT !.handlers[n].events = h.events \ {e}]
         s2 == IF e = "error"
                 THEN setState([s1 EXCEPT !.handlers[n].loadTimeout = FALSE], "isLoading", FALSE)
               ELSE IF e = "loadedmetadata" \/ ~h.ready
                 THEN setState(setState(
                        [s1 EXCEPT !.handlers[n].loadTimeout = FALSE,
                                   !.detectTimers = Append(s1.detectTimers, [ready |-> h.ready])],
                        "isLoading", FALSE), "cameraReady", TRUE)
               ELSE s1
     IN scanner' = effect(scanner, s2)
  /\ UNCHANGED <<dbvars, now, reqs, jobs, cache, statsReqs, wsvars, hookvars, authvars>>

\* The 15 s load timeout of stream n, not cleared: stopScanning().
ScanLoadTimeout(n) ==
  /\ n \in DOMAIN scanner.handlers
  /\ scanner.handlers[n].loadTimeout
  /\ LET s1 == [scanner EXCEPT !.handlers[n].loadTimeout = FALSE]
     IN scanner' = effect(scanner, stopScanning(setState(s1, "isLoading", FALSE)))
  /\ UNCHANGED <<dbvars, now, reqs, jobs, cache, statsReqs, wsvars, hookvars, authvars>>

\* The 300 ms timer of handleVideoReady: startQRDetection().
ScanDetectStart(i) ==
  /\ i \in DOMAIN scanner.detectTimers
  /\ Cardinality(DOMAIN scanner.frames) < MaxFrames
  /\ scanner' = requestFrame([scanner EXCEPT !.detectTimers = RemoveAt(scanner.detectTimers, i)],
                             scanner.detectTimers[i].ready)
  /\ UNCHANGED <<dbvars, now, reqs, jobs, cache, statsReqs, wsvars, hookvars, authvars>>

\* detectFrame runs for a frame: it returns at once without the elements or
\* with the cameraReady of its render unset; otherwise jsQR finds a code
\* (onScan, stopScanning, onDeactivate) or the next frame is requested. The
\* id of a frame that has run cancels nothing: it is as good as 0.
ScanDetectFrame(f, found) ==
  /\ f \in DOMAIN scanner.frames
  /\ LET s1 == [scanner EXCEPT
                  !.frames = [x \in DOMAIN scanner.frames \ {f} |-> scanner.frames[x]],
                  !.animationRef = IF scanner.animationRef = f THEN 0 ELSE scanner.animationRef]
     IN scanner' =
          IF ~videoPresent(scanner) \/ ~scanner.frames[f].ready THEN s1
          ELSE IF found
            THEN effect(scanner, [stopScanning([s1 EXCEPT !.scans = s1.scans + 1])
                                    EXCEPT !.active = FALSE])
            ELSE requestFrame(s1, scanner.frames[f].ready)
  /\ UNCHANGED <<dbvars, now, reqs, jobs, cache, statsReqs, wsvars, hookvars, authvars>>

\* The component unmounts: the cleanup of the first effect, stopScanning().
ScanUnmount ==
  /\ scanner.mounted
  /\ scanner' = [stopScanning(scanner) EXCEPT !.mounted = FALSE]
  /\ UNCHANGED <<dbvars, now, reqs, jobs, cache, statsReqs, wsvars, hookvars, authvars>>

\* The scanner after its first render, not active.
InitScanner ==
  scanner = [mounted |-> TRUE, active |-> FALSE, hasPermission |-> FALSE, isLoading |-> FALSE,
             cameraReady |-> FALSE, streamRef |-> 0, animationRef |-> 0, tracks |-> <<>>,
             nextStream |-> 1, calls |-> <<>>, handlers |-> <<>>, detectTimers |-> <<>>,
             frames |-> <<>>, scans |-> 0]

InitRest == InitHook /\ InitAuth /\ InitScanner

\* ---------------------------------------------------------- specifications
\* The server after construction: empty tables, empty cache, empty registry.
Init ==
  /\ events = <<>> /\ nextEventId = 1
  /\ attendees = <<>> /\ nextAttendeeId = 1
  /\ checkinLogs = <<>> /\ nextLogId = 1
  /\ eventCollaborators = {}
  /\ now = 0
  /\ reqs = [r \in Reqs |-> IdleReq]
  /\ jobs = [j \in Jobs |-> IdleJob]
  /\ cache = <<>>
  /\ statsReqs = [s \in StatsReqs |-> IdleStats]
  /\ clients = <<>>
  /\ sockets = <<>>
  /\ wss = TRUE /\ pingInterval = TRUE
  /\ InitRest

\* The request bodies of PUT /api/attendees/:id.
AttendeeBodies ==
  [name : Names] \cup [status : Statuses] \cup [name : Names, status : Statuses]
    \cup [qrCode : {NoQr}, checkinTime : {NoTime}]

\* The QR codes a scanner may submit: none, a random one, one in use.
ScannedCodes ==
  {NoQr} \cup {generateUniqueQRCode(n) : n \in 0..(QrRange - 1)}
         \cup {attendees[a].qrCode : a \in DOMAIN attendees}

\* Each user has created one event, asked for the dashboard statistics and
\* holds one open WebSocket connection; u1 has imported one attendee.
InitCheckin ==
  /\ events = (1 :> [userId |-> "u1", name |-> "n1"]) @@ (2 :> [userId |-> "u2", name |-> "n1"])
  /\ nextEventId = 3
  /\ attendees = (1 :> newAttendee(1, "n1", generateUniqueQRCode(0)))
  /\ nextAttendeeId = 2
  /\ checkinLogs = <<>> /\ nextLogId = 1
  /\ eventCollaborators = {}
  /\ now = 0
  /\ reqs = [r \in Reqs |-> IdleReq]
  /\ jobs = [j \in Jobs |-> IdleJob]
  /\ cache = [k \in {statsKey(u) : u \in Users} |->
                [value |-> getDashboardStats(k[2]), expiresAt |-> CacheTTL]]
  /\ statsReqs = [s \in StatsReqs |-> IdleStats]
  /\ clients = (1 :> [userId |-> "u1", isAlive |-> TRUE]) @@ (2 :> [userId |-> "u2", isAlive |-> TRUE])
  /\ sockets = [c \in {1, 2} |->
                  [readyState |-> OPEN, userId |-> clients[c].userId, pc |-> "attached",
                   closeCode |-> 0, sent |-> <<message("connected", clients[c].userId, c)>>,
                   pinged |-> FALSE]]
  /\ wss = TRUE /\ pingInterval = TRUE
  /\ InitRest

CheckinRoute ==
  \/ \E r \in Reqs, u \in Users, code \in ScannedCodes : CheckinLookup(r, u, code)
  \/ \E r \in Reqs : CheckinUpdate(r)
  \/ \E r \in Reqs, statsFirst \in BOOLEAN : CheckinLog(r, statsFirst)
  \/ \E r \in Reqs : CheckinBroadcast(r)

Next ==
  \/ CheckinRoute
  \/ \E u \in Users, a \in DOMAIN attendees, b \in AttendeeBodies : UpdateAttendee(u, a, b)
  \/ \E u \in Users, a \in DOMAIN attendees : DeleteAttendee(u, a)
  \/ \E u \in Users, ids \in SUBSET DOMAIN attendees : BulkDelete(u, ids)
  \/ \E u \in Users, e \in EventIds : DeleteEvent(u, e)
  \/ Tick

Spec == InitCheckin /\ [][Next]_vars

\* The QR code generation: each user has created one event; attendees are
\* created one by one and by import, and are given codes on demand.
InitQr ==
  /\ events = (1 :> [userId |-> "u1", name |-> "n1"]) @@ (2 :> [userId |-> "u2", name |-> "n1"])
  /\ nextEventId = 3
  /\ attendees = <<>> /\ nextAttendeeId = 1
  /\ checkinLogs = <<>> /\ nextLogId = 1
  /\ eventCollaborators = {}
  /\ now = 0
  /\ reqs = [r \in Reqs |-> IdleReq]
  /\ jobs = [j \in Jobs |-> IdleJob]
  /\ cache = <<>>
  /\ statsReqs = [s \in StatsReqs |-> IdleStats]
  /\ clients = <<>>
  /\ sockets = <<>>
  /\ wss = TRUE /\ pingInterval = TRUE
  /\ InitRest

QrRoutes ==
  \/ \E j \in Jobs, u \in Users, e \in {1, 2, 3} : ImportStart(j, u, e, "n1")
  \/ \E j \in Jobs, u \in Users, a \in AttendeeIds : QrFetchStart(j, u, a)
  \/ \E j \in Jobs, n \in 0..(QrRange - 1) : EnsureUniqueQRCode(j, n)
  \/ \E j \in Jobs : ImportInsert(j)
  \/ \E j \in Jobs : QrRegenUpdate(j)

NextQr ==
  \/ QrRoutes
  \/ \E u \in Users, e \in {1, 2} : CreateAttendee(u, e, "n1")
  \/ \E u \in Users, a \in DOMAIN attendees : DeleteAttendee(u, a)
  \/ Tick

SpecQr == InitQr /\ [][NextQr]_vars

\* The WebSocket manager after initialize(): connections come and go, the
\* heartbeat runs, and the check-in route broadcasts for the users.
NextWs ==
  \/ \E c \in 1..MaxConns, userId \in UrlUserIds : WsConnection(c, userId)
  \/ \E c \in 1..MaxConns : WsVerified(c)
  \/ \E c \in 1..MaxConns : WsPeerClose(c)
  \/ WsHeartbeat
  \/ \E c \in 1..MaxConns : WsPong(c)
  \/ \E c \in 1..MaxConns : WsPingMessage(c)
  \/ \E u \in Users : WsBroadcast(u)

SpecWs == Init /\ [][NextWs]_vars

\* The dashboard statistics: each user has created one event; attendees come
\* and go while the users ask for their statistics and the clock advances.
InitCache ==
  /\ events = (1 :> [userId |-> "u1", name |-> "n1"]) @@ (2 :> [userId |-> "u2", name |-> "n1"])
  /\ nextEventId = 3
  /\ attendees = <<>> /\ nextAttendeeId = 1
  /\ checkinLogs = <<>> /\ nextLogId = 1
  /\ eventCollaborators = {}
  /\ now = 0
  /\ reqs = [r \in Reqs |-> IdleReq]
  /\ jobs = [j \in Jobs |-> IdleJob]
  /\ cache = <<>>
  /\ statsReqs = [s \in StatsReqs |-> IdleStats]
  /\ clients = <<>>
  /\ sockets = <<>>
  /\ wss = TRUE /\ pingInterval = TRUE
  /\ InitRest

NextCache ==
  \/ \E s \in StatsReqs, u \in Users : StatsGet(s, u)
  \/ \E s \in StatsReqs : StatsQuery(s)
  \/ \E s \in StatsReqs : StatsStore(s)
  \/ \E u \in Users : CreateAttendee(u, 1, "n1")
  \/ \E u \in Users, ids \in SUBSET DOMAIN attendees : BulkDelete(u, ids)
  \/ Tick

SpecCache == InitCache /\ [][NextCache]_vars

\* The event routes, from the empty database: organizers create, update and
\* delete events and the attendees of their events.
EventBodies == [name : Names] \cup [userId : Users] \cup [name : Names, userId : Users]

NextEvents ==
  \/ \E u \in Users, name \in Names : CreateEvent(u, name)
  \/ \E u \in Users, id \in EventIds, body \in EventBodies : UpdateEvent(u, id, body)
  \/ \E u \in Users, id \in EventIds : DeleteEvent(u, id)
  \/ \E u \in Users, eventId \in EventIds : CreateAttendee(u, eventId, "n1")
  \/ \E u \in Users, id \in AttendeeIds : DeleteAttendee(u, id)

SpecEvents == Init /\ [][NextEvents]_vars

\* The tables under every route that inserts, moves or deletes a row: the
\* attendee routes with any eventId, the deletes, and one check-in at a time
\* whose log row is written after the response.
NextFk ==
  \/ \E u \in Users, code \in ScannedCodes : CheckinLookup(1, u, code)
  \/ CheckinUpdate(1)
  \/ \E statsFirst \in BOOLEAN : CheckinLog(1, statsFirst)
  \/ CheckinBroadcast(1)
  \/ \E u \in Users, eventId \in EventIds : CreateAttendee(u, eventId, "n1")
  \/ \E u \in Users, a \in DOMAIN attendees, b \in [eventId : EventIds] : UpdateAttendee(u, a, b)
  \/ \E u \in Users, a \in DOMAIN attendees : DeleteAttendee(u, a)
  \/ \E u \in Users, ids \in SUBSET DOMAIN attendees : BulkDelete(u, ids)
  \/ \E u \in Users, e \in EventIds : DeleteEvent(u, e)

SpecFk == InitCheckin /\ [][NextFk]_vars

\* Collaborators: the owners grant each other permissions on their events
\* and everybody scans.
NextCollab ==
  \/ \E u, v \in Users, e \in EventIds, ps \in {{"view"}, {"view", "checkin"}} :
       AddCollaborator(u, e, v, ps)
  \/ \E u \in Users, code \in ScannedCodes : CheckinLookup(1, u, code)
  \/ CheckinUpdate(1)
  \/ \E statsFirst \in BOOLEAN : CheckinLog(1, statsFirst)
  \/ CheckinBroadcast(1)

SpecCollab == InitCheckin /\ [][NextCollab]_vars

\* The check-in route over a database whose statements may fail after the
\* response has been sent.
NextPost ==
  \/ CheckinRoute
  \/ \E r \in Reqs : CheckinLogFails(r)
  \/ \E r \in Reqs : CheckinStatsFails(r)
  \/ \E u \in Users, a \in DOMAIN attendees : DeleteAttendee(u, a)

SpecPost == InitCheckin /\ [][NextPost]_vars

\* The statistics under changes that invalidate: u1's event has two
\* attendees, which are bulk-deleted while the statistics are asked for.
InitStale ==
  /\ events = (1 :> [userId |-> "u1", name |-> "n1"]) @@ (2 :> [userId |-> "u2", name |-> "n1"])
  /\ nextEventId = 3
  /\ attendees = (1 :> newAttendee(1, "n1", generateUniqueQRCode(0)))
                   @@ (2 :> newAttendee(1, "n2", NoQr))
  /\ nextAttendeeId = 3
  /\ checkinLogs = <<>> /\ nextLogId = 1
  /\ eventCollaborators = {}
  /\ now = 0
  /\ reqs = [r \in Reqs |-> IdleReq]
  /\ jobs = [j \in Jobs |-> IdleJob]
  /\ cache = <<>>
  /\ statsReqs = [s \in StatsReqs |-> IdleStats]
  /\ clients = <<>>
  /\ sockets = <<>>
  /\ wss = TRUE /\ pingInterval = TRUE
  /\ InitRest

NextStale ==
  \/ \E s \in StatsReqs, u \in Users : StatsGet(s, u)
  \/ \E s \in StatsReqs : StatsQuery(s)
  \/ \E s \in StatsReqs : StatsStore(s)
  \/ \E u \in Users, ids \in SUBSET DOMAIN attendees : BulkDelete(u, ids)
  \/ Tick

SpecStale == InitStale /\ [][NextStale]_vars

\* The attendee form: attendees are created, edited with any body and
\* scanned, one request at a time.
PutBodies ==
  AttendeeBodies \cup [eventId : EventIds] \cup [eventId : EventIds, status : Statuses]
    \cup [name : Names, checkoutTime : {0}]

NextPut ==
  \/ \E u \in Users, a \in DOMAIN attendees, b \in PutBodies : UpdateAttendee(u, a, b)
  \/ \E u \in Users, e \in EventIds, name \in Names : CreateAttendee(u, e, name)
  \/ \E u \in Users, code \in ScannedCodes : CheckinLookup(1, u, code)
  \/ CheckinUpdate(1)
  \/ \E statsFirst \in BOOLEAN : CheckinLog(1, statsFirst)
  \/ CheckinBroadcast(1)

SpecPut == InitCheckin /\ [][NextPut]_vars

\* The registry over its whole life: connections, the heartbeat timer, which
\* fires as long as it is set, the user lookups, which all return, and close().
NextWsLife ==
  \/ \E c \in 1..MaxConns, userId \in UrlUserIds : WsConnection(c, userId)
  \/ \E c \in 1..MaxConns : WsVerified(c)
  \/ \E c \in 1..MaxConns : WsPeerClose(c)
  \/ WsHeartbeat
  \/ \E c \in 1..MaxConns : WsPong(c)
  \/ WsClose

SpecWsLife ==
  /\ Init /\ [][NextWsLife]_vars
  /\ WF_vars(WsHeartbeat)
  /\ \A c \in 1..MaxConns : WF_vars(WsVerified(c))

\* One useWebSocket instance: the sockets connect, fail and close, the page
\* becomes visible, the timers fire, the component unmounts.
\* Registrations arrive and proceed, interleaved at their awaits.
NextRegister ==
  \/ \E r \in Regs, body \in RegisterBodies : RegisterStart(r, body)
  \/ \E r \in Regs : RegisterCheck(r)
  \/ \E r \in Regs : RegisterUser(r)
  \/ \E r \in Regs : RegisterHash(r)
  \/ \E r \in Regs : RegisterAuth(r)

SpecRegister == Init /\ [][NextRegister]_vars

\* The scanner is switched on and off and unmounted while the camera, the
\* video element, the timers and the animation frames deliver their events.
NextScanner ==
  \/ ScanActivate
  \/ ScanDeactivate
  \/ \E i \in PendingIds, sync \in BOOLEAN : ScanGranted(i, sync)
  \/ \E i \in PendingIds : ScanDenied(i)
  \/ \E n \in 1..MaxStreams, e \in VideoEvents : ScanVideoEvent(n, e)
  \/ \E n \in 1..MaxStreams : ScanLoadTimeout(n)
  \/ \E i \in PendingIds : ScanDetectStart(i)
  \/ \E f \in 1..MaxFrames, found \in BOOLEAN : ScanDetectFrame(f, found)
  \/ ScanUnmount

SpecScanner == Init /\ [][NextScanner]_vars

NextHook ==
  \/ HookMount
  \/ HookVisible
  \/ \E k \in 1..MaxHookSockets : HookOpen(k)
  \/ \E k \in 1..MaxHookSockets : HookClosed(k)
  \/ \E t \in 1..MaxHookTimers : HookTimer(t)
  \/ HookUnmount

SpecHook == Init /\ [][NextHook]_vars

\* ------------------------------------------------------------------ claims
inFlight(r) == reqs[r].pc \notin {"idle", "done"}

logsOf(a) == {l \in DOMAIN checkinLogs : checkinLogs[l].attendeeId = a}

\* The transitions of the lifecycle pending -> checked_in -> checked_out made so far.
rank(status) == IF status = "pending" THEN 0 ELSE IF status = "checked_in" THEN 1 ELSE 2

\* C1: an attendee's status is pending, checked_in or checked_out, pending
\* right after creation, and every change of it is pending -> checked_in or
\* checked_in -> checked_out.
C1_StatusLinear ==
  [][\A a \in DOMAIN attendees' :
       /\ attendees'[a].status \in Statuses
       /\ IF a \in DOMAIN attendees
            THEN \/ attendees'[a].status = attendees[a].status
                 \/ rank(attendees'[a].status) = rank(attendees[a].status) + 1
            ELSE attendees'[a].status = "pending"]_vars

\* C2 as stated: a submission of a QR code that has been scanned before (the
\* attendee was no longer pending when it was looked up) changes neither the
\* attendee nor the log.
C2_Idempotent ==
  [][\A r \in Reqs :
       (reqs[r].seen # "pending" /\ (CheckinUpdate(r) \/ \E sf \in BOOLEAN : CheckinLog(r, sf)))
         => UNCHANGED <<attendees, checkinLogs>>]_vars

\* C2 amended: the second submission checks the attendee out (status
\* checked_out, checkoutTime set, checkinTime kept, one check_out log row);
\* a submission by the owner for an attendee that is checked_out is answered
\* 400 and changes nothing.
C2_ToggleThenIdempotent ==
  /\ [][\A r \in Reqs :
          LET a == reqs[r].attendeeId IN
          (CheckinUpdate(r) /\ a \in DOMAIN attendees /\ attendees[a].status = "checked_in"
             /\ reqs[r].seen = "checked_in")
            => /\ attendees'[a].status = "checked_out"
               /\ attendees'[a].checkoutTime = reqs[r].time
               /\ attendees'[a].checkinTime = attendees[a].checkinTime]_vars
  /\ [][\A r \in Reqs :
          (reqs[r].seen = "checked_in" /\ (\E sf \in BOOLEAN : CheckinLog(r, sf))
             /\ reqs[r].attendeeId \in DOMAIN attendees)
            => /\ nextLogId \in DOMAIN checkinLogs'
               /\ checkinLogs'[nextLogId].action = "check_out"
               /\ checkinLogs'[nextLogId].attendeeId = reqs[r].attendeeId]_vars
  /\ [][\A r \in Reqs, u \in Users, code \in ScannedCodes :
          (CheckinLookup(r, u, code)
             /\ \E a \in getAttendeeWithEvent(code) :
                  attendees[a].status = "checked_out" /\ events[attendees[a].eventId].userId = u)
            => /\ reqs'[r].pc = "done" /\ reqs'[r].status = 400
               /\ UNCHANGED <<dbvars, cache, wsvars>>]_vars

\* A submission for a checked_out attendee has been answered 400.
C2_Witness == \E r \in Reqs : reqs[r].status = 400 /\ reqs[r].seen = "checked_out"

\* C3 as stated, at rest: with no check-in in flight, an attendee has as many
\* log rows as its status has made transitions.
C3_LogPerTransition ==
  (\A r \in Reqs : ~inFlight(r))
    => \A a \in DOMAIN attendees : Cardinality(logsOf(a)) = rank(attendees[a].status)

\* C4 as stated: a log row, once created, is never modified or removed.
C4_AppendOnly ==
  [][\A l \in DOMAIN checkinLogs :
       l \in DOMAIN checkinLogs' /\ checkinLogs'[l] = checkinLogs[l]]_vars

\* C4 amended: a log row is never modified, and it is removed only together
\* with its attendee (attendee delete, bulk delete or event delete).
C4_RemovedOnlyWithAttendee ==
  [][\A l \in DOMAIN checkinLogs :
       IF l \in DOMAIN checkinLogs'
         THEN checkinLogs'[l] = checkinLogs[l]
         ELSE /\ checkinLogs[l].attendeeId \in DOMAIN attendees
              /\ checkinLogs[l].attendeeId \notin DOMAIN attendees']_vars

\* Log rows have been written and have gone with their attendee, while
\* another request wrote its own.
C4_Witness == nextLogId > 2 /\ DOMAIN checkinLogs = {} /\ DOMAIN attendees = {}

\* C5: a check-in by a user who does not own the event of the scanned
\* attendee is answered 403 at once and changes no table, no cache entry and
\* no socket.
C5_NonOwnerRejected ==
  [][\A r \in Reqs, u \in Users, code \in ScannedCodes :
       (CheckinLookup(r, u, code)
          /\ \E a \in getAttendeeWithEvent(code) : events[attendees[a].eventId].userId # u)
         => /\ reqs'[r].pc = "done" /\ reqs'[r].status = 403
            /\ UNCHANGED <<dbvars, cache, wsvars>>]_vars

\* A non-owner has scanned an attendee that the owner had checked in.
C5_Witness == \E r \in Reqs : reqs[r].status = 403 /\ reqs[r].seen = "checked_in"

\* C6: no two attendees hold the same non-null qrCode, so a scanned code
\* resolves to at most one attendee.
C6_QrCodesUnique ==
  /\ \A a, b \in DOMAIN attendees :
       (a # b /\ attendees[a].qrCode # NoQr) => attendees[a].qrCode # attendees[b].qrCode
  /\ \A n \in 0..(QrRange - 1) : Cardinality(getAttendeeWithEvent(generateUniqueQRCode(n))) <= 1

\* Two requests generated the same code at the same time; one of them got
\* it and the other was refused.
C6_Witness ==
  \E j, k \in Jobs :
    /\ j # k /\ jobs[j].pc = "done" /\ jobs[k].pc = "done"
    /\ jobs[j].qrCode = jobs[k].qrCode /\ jobs[j].qrCode # NoQr
    /\ jobs[j].failed = 0 /\ jobs[k].failed = 1
    /\ \E a \in DOMAIN attendees : attendees[a].qrCode = jobs[j].qrCode

\* The three messages of one check-in, as a client of the user receives them.
checkinMessages(userId) ==
  <<message("checkin_update", userId, 0), message("stats_update", userId, 0),
    message("attendee_update", userId, 0)>>

isBroadcast(msg) == msg.type \in {"checkin_update", "stats_update", "attendee_update"}

\* C7: a broadcast for user u reaches every registered client of u whose
\* socket is OPEN and no other socket; no socket ever holds a broadcast made
\* for another user than the one of its URL.
C7_BroadcastToOwnClients ==
  /\ [][\A u \in Users :
          WsBroadcast(u) =>
            \A c \in DOMAIN sockets :
              sockets'[c].sent =
                IF c \in DOMAIN clients /\ clients[c].userId = u /\ sockets[c].readyState = OPEN
                  THEN sockets[c].sent \o checkinMessages(u)
                  ELSE sockets[c].sent]_vars
  /\ [](\A c \in DOMAIN sockets : \A i \in 1..Len(sockets[c].sent) :
          isBroadcast(sockets[c].sent[i]) => sockets[c].sent[i].userId = sockets[c].userId)

\* Two clients of different users are registered and open; one has received
\* the broadcasts of a check-in, the other has not.
C7_Witness ==
  \E c, d \in DOMAIN clients :
    /\ clients[c].userId # clients[d].userId
    /\ sockets[c].readyState = OPEN /\ sockets[d].readyState = OPEN
    /\ sockets[c].sent = <<message("connected", clients[c].userId, c)>> \o checkinMessages(clients[c].userId)
    /\ sockets[d].sent = <<message("connected", clients[d].userId, d)>>

\* C8: a connection is registered iff its URL names an existing user; one with
\* a missing or unknown userId is closed with 1008, never registered and sent
\* nothing; whatever a socket is sent starts with its 'connected' message.
C8_RegisteredIffKnownUser ==
  /\ [][\A c \in DOMAIN sockets :
          WsVerified(c) => (c \in DOMAIN clients' <=> sockets[c].userId \in Users)]_vars
  /\ [](\A c \in DOMAIN clients :
          sockets[c].userId \in Users /\ clients[c].userId = sockets[c].userId)
  /\ [](\A c \in DOMAIN sockets :
          /\ sockets[c].pc = "lookup" => (c \notin DOMAIN clients /\ sockets[c].sent = <<>>)
          /\ (sockets[c].userId \notin Users /\ sockets[c].pc # "lookup")
               => /\ sockets[c].readyState = CLOSED /\ sockets[c].closeCode = 1008
                  /\ c \notin DOMAIN clients /\ sockets[c].sent = <<>>
          /\ sockets[c].sent # <<>>
               => sockets[c].sent[1] = message("connected", sockets[c].userId, c))

\* An unknown user has been turned away while a registered client has
\* received broadcasts after its 'connected' message.
C8_Witness ==
  \E c, d \in DOMAIN sockets :
    /\ sockets[c].userId = "ghost" /\ sockets[c].closeCode = 1008
    /\ d \in DOMAIN clients /\ Len(sockets[d].sent) = 4

\* A cache entry that is there and has not expired.
fresh(key) == key \in DOMAIN cache /\ now < cache[key].expiresAt

\* C9: with a fresh entry under stats:u the request of u is answered with it
\* and does not query the database; otherwise it queries, stores the result
\* under stats:u for 5000 ms and answers with it; the statistics a user is
\* answered with, and those stored under stats:u, are that user's.
C9_StatsCache ==
  /\ [][\A s \in StatsReqs, u \in Users :
          StatsGet(s, u) =>
            IF fresh(<<"stats", u>>)
              THEN /\ statsReqs'[s].pc = "done" /\ statsReqs'[s].source = "cache"
                   /\ statsReqs'[s].stats = cache[<<"stats", u>>].value
              ELSE statsReqs'[s].pc = "query" /\ statsReqs'[s].userId = u]_vars
  /\ [][\A s \in StatsReqs :
          StatsStore(s) =>
            LET u == statsReqs[s].userId IN
            /\ <<"stats", u>> \in DOMAIN cache'
            /\ cache'[<<"stats", u>>] = [value |-> statsReqs[s].stats, expiresAt |-> now + 5000]
            /\ statsReqs'[s].stats = statsReqs[s].stats /\ statsReqs'[s].source = "db"
            /\ \A k \in DOMAIN cache' \ {<<"stats", u>>} : k \in DOMAIN cache /\ cache'[k] = cache[k]]_vars
  /\ [](\A s \in StatsReqs :
          statsReqs[s].pc \in {"store", "done"} => statsReqs[s].stats.userId = statsReqs[s].userId)
  /\ [](\A u \in Users : <<"stats", u>> \in DOMAIN cache => cache[<<"stats", u>>].value.userId = u)

\* One user has been answered from the cache while the other's entry had
\* expired and was computed again.
C9_Witness ==
  \E s, t \in StatsReqs :
    /\ statsReqs[s].pc = "done" /\ statsReqs[s].source = "cache"
    /\ statsReqs[t].pc = "done" /\ statsReqs[t].source = "db"
    /\ statsReqs[s].userId # statsReqs[t].userId
    /\ now >= CacheTTL /\ fresh(<<"stats", statsReqs[t].userId>>)

\* C10: a PUT or DELETE /api/events/:id by a user who is not the event's owner
\* leaves the event unchanged, and no request changes the userId of an event.
C10_OwnerOnly ==
  /\ [][\A u \in Users, id \in EventIds, body \in EventBodies :
          (UpdateEvent(u, id, body) /\ events[id].userId # u) => events' = events]_vars
  /\ [][\A u \in Users, id \in EventIds :
          (DeleteEvent(u, id) /\ events[id].userId # u) => events' = events]_vars
  /\ [][\A id \in EventIds :
          (id \in DOMAIN events /\ id \in DOMAIN events') =>
            events'[id].userId = events[id].userId]_vars

\* C11: every attendee's eventId names an existing event and every log row's
\* attendeeId an existing attendee; deleting an event removes its attendees
\* and their log rows, deleting an attendee removes its log rows.
C11_ForeignKeys ==
  /\ [](\A a \in DOMAIN attendees : attendees[a].eventId \in DOMAIN events)
  /\ [](\A l \in DOMAIN checkinLogs : checkinLogs[l].attendeeId \in DOMAIN attendees)
  /\ [][\A u \in Users, e \in EventIds :
          DeleteEvent(u, e) =>
            /\ e \notin DOMAIN events'
            /\ \A a \in DOMAIN attendees :
                 attendees[a].eventId = e =>
                   /\ a \notin DOMAIN attendees'
                   /\ \A l \in logsOf(a) : l \notin DOMAIN checkinLogs']_vars
  /\ [][\A u \in Users, a \in AttendeeIds :
          DeleteAttendee(u, a) =>
            a \notin DOMAIN attendees' /\ \A l \in logsOf(a) : l \notin DOMAIN checkinLogs']_vars
  /\ [][\A u \in Users, ids \in SUBSET AttendeeIds :
          BulkDelete(u, ids) =>
            \A a \in validIds(u, ids) :
              a \notin DOMAIN attendees' /\ \A l \in logsOf(a) : l \notin DOMAIN checkinLogs']_vars

\* The owner has deleted the event of an attendee that had been checked in
\* and out, while the other event has been given an attendee.
C11_Witness ==
  /\ 1 \notin DOMAIN events /\ nextLogId = 3 /\ DOMAIN checkinLogs = {}
  /\ \E a \in DOMAIN attendees : attendees[a].eventId = 2

\* The user holds the check-in permission on the event as a collaborator.
mayCheckin(u, e) ==
  \E g \in eventCollaborators : g.eventId = e /\ g.userId = u /\ "checkin" \in g.permissions

\* C12: a scan by a non-owner who holds the check-in permission on the
\* attendee's event goes through like the owner's (it is not answered 403 and,
\* for an attendee not yet checked out, proceeds to the update); a scan by a
\* non-owner without the permission is answered 403.
C12_CollaboratorCheckin ==
  [][\A u \in Users, code \in ScannedCodes :
       CheckinLookup(1, u, code) =>
         \A a \in getAttendeeWithEvent(code) :
           events[attendees[a].eventId].userId # u =>
             IF mayCheckin(u, attendees[a].eventId)
               THEN /\ reqs'[1].status # 403
                    /\ attendees[a].status # "checked_out" => reqs'[1].pc = "update"
               ELSE reqs'[1].pc = "done" /\ reqs'[1].status = 403]_vars

logsOfAction(a, action) == {l \in logsOf(a) : checkinLogs[l].action = action}

\* C13: whatever the interleaving of the scans of an attendee's code, at most
\* one request is answered check_in and at most one check_out, and the
\* attendee has at most one log row of each action.
C13_OncePerAction ==
  /\ \A a \in DOMAIN attendees : \A action \in {"check_in", "check_out"} :
       Cardinality(logsOfAction(a, action)) <= 1
  /\ \A r, q \in Reqs :
       (r # q /\ reqs[r].status = 200 /\ reqs[q].status = 200) => reqs[r].action # reqs[q].action

\* C14: a scan with no code (400), with a code of no attendee (404) or, by the
\* owner, of an attendee that is checked out (400) is answered at once and
\* changes no table, no cache entry and no socket.
C14_RejectedChangesNothing ==
  [][\A r \in Reqs, u \in Users, code \in ScannedCodes :
       CheckinLookup(r, u, code) =>
         /\ code = NoQr =>
              reqs'[r].pc = "done" /\ reqs'[r].status = 400 /\ UNCHANGED <<dbvars, cache, wsvars>>
         /\ (code # NoQr /\ getAttendeeByQrCode(code) = {}) =>
              reqs'[r].pc = "done" /\ reqs'[r].status = 404 /\ UNCHANGED <<dbvars, cache, wsvars>>
         /\ (\E a \in getAttendeeByQrCode(code) :
               attendees[a].status = "checked_out" /\ events[attendees[a].eventId].userId = u) =>
              reqs'[r].pc = "done" /\ reqs'[r].status = 400 /\ UNCHANGED <<dbvars, cache, wsvars>>]_vars

\* A scan without a code and a scan of a checked-out attendee have been
\* answered 400, with the log rows of its check-in and check-out in place.
C14_Witness ==
  \E r, q \in Reqs :
    /\ reqs[r].status = 400 /\ reqs[r].seen = ""
    /\ reqs[q].status = 400 /\ reqs[q].seen = "checked_out"
    /\ Cardinality(DOMAIN checkinLogs) = 2

\* The request has been answered success and is in its post-response block.
postResponse(r) == reqs[r].status = 200 /\ reqs[r].pc \in {"log", "broadcast"}

postFails(r) ==
  \/ CheckinLogFails(r)
  \/ CheckinStatsFails(r)
  \/ (\E sf \in BOOLEAN : CheckinLog(r, sf)) /\ reqs[r].attendeeId \notin DOMAIN attendees

\* C16: when the log insert or the stats query of the post-response block
\* fails, the request has been answered success, the attendee keeps what the
\* request wrote, no socket is sent anything, no cache entry is dropped, and
\* the request is over: the server takes the next one.
C16_PostFailureSwallowed ==
  [][\A r \in Reqs :
       postFails(r) =>
         /\ reqs[r].status = 200 /\ reqs'[r].status = 200
         /\ attendees' = attendees
         /\ sockets' = sockets /\ clients' = clients
         /\ cache' = cache
         /\ reqs'[r].pc = "done"
         /\ \A q \in Reqs \ {r} : reqs'[q] = reqs[q]]_vars

\* The check-in and the check-out of the attendee were both answered success
\* and both lost their log row; nothing was broadcast or invalidated.
C16_Witness ==
  /\ 1 \in DOMAIN attendees /\ attendees[1].status = "checked_out"
  /\ nextLogId = 1
  /\ \A r \in Reqs : reqs[r].pc = "done" /\ reqs[r].status = 200
  /\ \A c \in DOMAIN sockets : Len(sockets[c].sent) = 1
  /\ statsKey("u1") \in DOMAIN cache

C18_PutFrame ==
  [][\A u \in Users, a \in AttendeeIds, b \in PutBodies :
       UpdateAttendee(u, a, b) =>
         /\ DOMAIN attendees' = DOMAIN attendees
         /\ \A x \in DOMAIN attendees \ {a} : attendees'[x] = attendees[x]
         /\ \A f \in {"status", "qrCode", "checkinTime", "checkoutTime"} :
              attendees'[a][f] = attendees[a][f]
         /\ "name" \notin DOMAIN b => attendees'[a].name = attendees[a].name
         /\ "eventId" \notin DOMAIN b => attendees'[a].eventId = attendees[a].eventId
         /\ UNCHANGED <<events, checkinLogs, nextLogId, cache, wsvars>>]_vars

\* A checked-in attendee has been renamed and moved to the other event and
\* still holds its status, code and check-in time, next to a second attendee.
C18_Witness ==
  /\ 1 \in DOMAIN attendees /\ 2 \in DOMAIN attendees
  /\ attendees[1] = [newAttendee(2, "n2", generateUniqueQRCode(0))
                       EXCEPT !.status = "checked_in", !.checkinTime = 0]

\* C19: pending has neither time, checked_in has a checkinTime and no
\* checkoutTime, checked_out has both; a checkinTime once set stays as it is.
C19_TimesAgree ==
  /\ [](\A a \in DOMAIN attendees :
          /\ attendees[a].checkinTime # NoTime <=> attendees[a].status # "pending"
          /\ attendees[a].checkoutTime # NoTime <=> attendees[a].status = "checked_out")
  /\ [][\A a \in DOMAIN attendees :
          (attendees[a].checkinTime # NoTime /\ a \in DOMAIN attendees') =>
            attendees'[a].checkinTime = attendees[a].checkinTime]_vars

\* C20: a heartbeat tick terminates and removes every registered client that
\* is not alive, and marks every other one not alive and pings it; a pong
\* marks the client alive. So a client whose pong came before the tick stays,
\* and one pinged by a tick with no pong since is removed by the next.
C20_Heartbeat ==
  /\ [][WsHeartbeat =>
          \A c \in DOMAIN clients :
            IF clients[c].isAlive
              THEN /\ c \in DOMAIN clients' /\ ~clients'[c].isAlive
                   /\ clients'[c].userId = clients[c].userId
                   /\ sockets'[c].readyState = sockets[c].readyState /\ sockets'[c].pinged
              ELSE /\ c \notin DOMAIN clients'
                   /\ sockets'[c].readyState = CLOSED /\ sockets'[c].closeCode = 1006]_vars
  /\ [][\A c \in 1..MaxConns :
          WsPong(c) => (c \in DOMAIN clients' /\ clients'[c].isAlive /\ sockets'[c].readyState = OPEN)]_vars
  /\ [](\A c \in DOMAIN clients : clients[c].isAlive <=> ~sockets[c].pinged)
  /\ [](\A c \in DOMAIN sockets :
          sockets[c].closeCode = 1006 => (c \notin DOMAIN clients /\ sockets[c].pinged))

\* The heartbeat has terminated a client that did not answer its ping, while
\* a client that answered an earlier ping has been pinged again.
C20_Witness ==
  \E c, d \in DOMAIN sockets :
    /\ sockets[c].closeCode = 1006 /\ c \notin DOMAIN clients
    /\ d \in DOMAIN clients /\ d < c /\ ~clients[d].isAlive /\ sockets[d].pinged

\* C21: a registry entry whose socket has closed is eventually removed, and
\* once close() has run the registry is empty and no heartbeat timer is set.
C21_RegistryDrains ==
  /\ \A c \in 1..MaxConns :
       (c \in DOMAIN clients /\ sockets[c].readyState = CLOSED) ~> (c \notin DOMAIN clients)
  /\ [](~wss => (DOMAIN clients = {} /\ ~pingInterval))

\* C22: the timer onclose sets after n reconnects waits min(1000 * 2^n, 30000)
\* ms, none is set once the counter is 5, onopen resets the counter to 0 and
\* the counter never exceeds 5.
C22_Backoff ==
  /\ [][\A k \in DOMAIN hookSockets : HookClosed(k) =>
          IF reconnectAttempts < maxReconnectAttempts
            THEN \E t \in DOMAIN hookTimers' \ DOMAIN hookTimers :
                   /\ hookTimers'[t] = Min(1000 * 2 ^ reconnectAttempts, 30000)
                   /\ hookTimers'[t] \in {1000, 2000, 4000, 8000, 16000}
            ELSE hookTimers' = hookTimers]_vars
  /\ [][\A k \in DOMAIN hookSockets : HookOpen(k) => reconnectAttempts' = 0]_vars
  /\ [](reconnectAttempts <= maxReconnectAttempts)

\* C23: once the effect's cleanup has run disconnect(), no WebSocket is
\* created any more and no reconnect timer is pending.
C23_DisconnectIsFinal ==
  /\ [][hookMounted = "unmounted" => DOMAIN hookSockets' \subseteq DOMAIN hookSockets]_vars
  /\ [](hookMounted = "unmounted" => DOMAIN hookTimers = {})

\* C24: at most one WebSocket of the instance is connecting or open.
C24_OneSocket ==
  Cardinality({k \in DOMAIN hookSockets : hookSockets[k].readyState \in {CONNECTING, OPEN}}) <= 1

\* C25: a registration answered 200 has inserted its users row and its
\* local_auth row and any other finished registration has left neither; no
\* two local_auth rows share a username; every local_auth row refers to an
\* existing user.
C25_RegisterAtomic ==
  /\ \A r \in Regs : regs[r].pc = "done" =>
       IF regs[r].status = 200
         THEN /\ r \in DOMAIN users
              /\ [userId |-> r, username |-> regs[r].body.username] \in localAuth
         ELSE /\ r \notin DOMAIN users
              /\ \A a \in localAuth : a.userId # r
  /\ \A a, b \in localAuth : a.username = b.username => a = b
  /\ \A a \in localAuth : a.userId \in DOMAIN users

\* C26: onScan is called at most once per activation, and while the scanner
\* is deactivated or unmounted (after a detection included) every camera
\* track acquired is stopped and no detection frame is scheduled, also when
\* getUserMedia resolves only after the deactivation or the unmount.
C26_ScannerReleases ==
  /\ scanner.scans <= 1
  /\ (~scanner.mounted \/ ~scanner.active) =>
       /\ \A n \in DOMAIN scanner.tracks : scanner.tracks[n] = "ended"
       /\ DOMAIN scanner.frames = {}

====
